---- MODULE Spec2Model ----
(***************************************************************************)
(* A model of the LSH index of mattilyra/LSH: lsh/cache.py (Cache) on top  *)
(* of lsh/backends.py (DictBackend).                                       *)
(*                                                                         *)
(* Python values are encoded as follows.  A document is a natural number,  *)
(* a doc_id is an integer (the sentinel -1 of get_duplicates_of included), *)
(* None is the integer NoneVal, a fingerprint is a sequence of NumSeeds    *)
(* naturals, a dict is a function whose DOMAIN is its key set, and an      *)
(* exception is the string of its class name ("ok" when nothing is         *)
(* raised).  DictBackend._fingerprints is None or a dict: the field        *)
(* fp_none tells the two apart (fingerprints is then the empty function).  *)
(* A Cache whose constructor raised does not exist: num_bands is then None *)
(* and no operation can be called.                                         *)
(***************************************************************************)
EXTENDS Integers, Sequences, FiniteSets, TLC

\* ---------------------------------------------------------------- bounds
NumSeeds == 2
MaxVal == 1
MaxDocId == 1
MaxDoc == 2
MaxGens == 1
MaxCalls == 4
TestSeeds == 12
MaxAdds == 2

\* ------------------------------------------------------------- encodings
NoneVal == -2
Sentinel == -1

Docs == 0..MaxDoc
UserIds == 0..MaxDocId

VARIABLES hasher, num_bands, backend, gens, last, added, ncalls, test, sqlite

vars == <<hasher, num_bands, backend, gens, last, added, ncalls, test, sqlite>>

\* dict helpers: d[k] = v and del d[k]
Put(d, k, v) == [x \in (DOMAIN d) \cup {k} |-> IF x = k THEN v ELSE d[x]]

Del(d, k) == [x \in (DOMAIN d) \ {k} |-> d[x]]

EmptyDict == [x \in {} |-> 0]

\* ------------------------------------------------------------ the hasher
\* hasher.fingerprint(doc): a deterministic signature of hasher.num_seeds
\* values.  Distinct documents may get the same signature (doc and
\* doc + (MaxVal+1)^num_seeds do).
RECURSIVE Pow(_, _)
Pow(b, n) == IF n = 0 THEN 1 ELSE b * Pow(b, n - 1)

fingerprint(doc) == [j \in 1..hasher.num_seeds |-> (doc \div Pow(MaxVal + 1, j - 1)) % (MaxVal + 1)]

\* hasher.jaccard(f1, f2) > min_jaccard, where the estimate is the number of
\* agreeing positions over num_seeds and min_jaccard is given in percent.
\* mutant: the values of the two signatures are compared as sets
Agree_as_sets(f1, f2) == Cardinality({f1[j] : j \in DOMAIN f1} \cap {f2[j] : j \in DOMAIN f2})

Agree(f1, f2) == Cardinality({j \in 1..hasher.num_seeds : f1[j] = f2[j]})

JaccardAbove(f1, f2, pct) == Agree(f1, f2) * 100 > pct * hasher.num_seeds

\* ---------------------------------------------------------- band splitter
band_width == hasher.num_seeds \div num_bands

Bands == 0..(num_bands - 1)

\* mutant: num_bands is taken for the width of a band
BandSlice_by_num_bands(fp, b) == SubSeq(fp, b * num_bands + 1, (b + 1) * num_bands)

\* np.array_split(fingerprint, num_bands)[b]
BandSlice(fp, b) == SubSeq(fp, b * band_width + 1, (b + 1) * band_width)

\* hash(tuple(bucket)): a positional mix of the entries, seeded with 1
RECURSIVE HashTuple(_)
HashTuple(t) == IF Len(t) = 0 THEN 1 ELSE HashTuple(SubSeq(t, 1, Len(t) - 1)) * (MaxVal + 2) + t[Len(t)]

BucketId(fp, b) == HashTuple(BandSlice(fp, b))

\* ------------------------------------------------------------ DictBackend
DictBackend_init(nb) == [fp_none |-> TRUE, fingerprints |-> EmptyDict, doc_ids |-> [b \in 0..(nb - 1) |-> EmptyDict]]

is_empty(be) == DOMAIN be.doc_ids = {}

\* mutant: None passes as a doc_id
validate_docid_accepts_none(doc_id) == "ok"

validate_docid(doc_id) == IF doc_id = NoneVal THEN "ValueError" ELSE "ok"

DictBackend_add_fingerprint(be, bin_i, bucket_id, fp, doc_id) ==
    IF validate_docid(doc_id) # "ok" THEN [be |-> be, err |-> validate_docid(doc_id)]
    ELSE LET old == IF bucket_id \in DOMAIN be.doc_ids[bin_i] THEN be.doc_ids[bin_i][bucket_id] ELSE {}
             ids == [be.doc_ids EXCEPT ![bin_i] = Put(@, bucket_id, old \cup {doc_id})]
         IN [be |-> [fp_none |-> FALSE, fingerprints |-> Put(be.fingerprints, doc_id, fp), doc_ids |-> ids],
             err |-> "ok"]

get_all_buckets(be) == UNION {{be.doc_ids[b][k] : k \in DOMAIN be.doc_ids[b]} : b \in DOMAIN be.doc_ids}

get_fingerprint(be, doc_id) ==
    IF doc_id = NoneVal THEN [err |-> "KeyError", val |-> <<>>]
    ELSE IF be.fp_none THEN [err |-> "TypeError", val |-> <<>>]
    ELSE IF doc_id \notin DOMAIN be.fingerprints THEN [err |-> "KeyError", val |-> <<>>]
    ELSE [err |-> "ok", val |-> be.fingerprints[doc_id]]

\* mutant: the whole bucket is deleted, whoever else is in it
DictBackend_remove_docid_drops_bucket(be, bin_i, bucket_id, doc_id) ==
    IF bucket_id \notin DOMAIN be.doc_ids[bin_i] THEN [be |-> be, err |-> "KeyError"]
    ELSE IF doc_id \notin be.doc_ids[bin_i][bucket_id] THEN [be |-> be, err |-> "KeyError"]
    ELSE [be |-> [be EXCEPT !.doc_ids[bin_i] = Del(@, bucket_id)], err |-> "ok"]

\* mutant: a bucket that becomes empty is kept
DictBackend_remove_docid_keeps_empty(be, bin_i, bucket_id, doc_id) ==
    IF bucket_id \notin DOMAIN be.doc_ids[bin_i] THEN [be |-> be, err |-> "KeyError"]
    ELSE IF doc_id \notin be.doc_ids[bin_i][bucket_id] THEN [be |-> be, err |-> "KeyError"]
    ELSE [be |-> [be EXCEPT !.doc_ids[bin_i][bucket_id] = @ \ {doc_id}], err |-> "ok"]

DictBackend_remove_docid(be, bin_i, bucket_id, doc_id) ==
    IF bucket_id \notin DOMAIN be.doc_ids[bin_i] THEN [be |-> be, err |-> "KeyError"]
    ELSE IF doc_id \notin be.doc_ids[bin_i][bucket_id] THEN [be |-> be, err |-> "KeyError"]
    ELSE LET rest == be.doc_ids[bin_i][bucket_id] \ {doc_id}
             d == IF rest = {} THEN Del(be.doc_ids[bin_i], bucket_id) ELSE Put(be.doc_ids[bin_i], bucket_id, rest)
         IN [be |-> [be EXCEPT !.doc_ids[bin_i] = d], err |-> "ok"]

DictBackend_remove_fingerprint(be, doc_id) ==
    IF be.fp_none THEN [be |-> be, err |-> "TypeError"]
    ELSE IF doc_id \notin DOMAIN be.fingerprints THEN [be |-> be, err |-> "KeyError"]
    ELSE [be |-> [be EXCEPT !.fingerprints = Del(@, doc_id)], err |-> "ok"]

\* mutant: only the buckets are wiped
DictBackend_clear_keeps_fingerprints(be) == [be EXCEPT !.doc_ids = [b \in Bands |-> EmptyDict]]

DictBackend_clear(be) == [fp_none |-> TRUE, fingerprints |-> EmptyDict, doc_ids |-> [b \in Bands |-> EmptyDict]]

\* ------------------------------------------------------------------ Cache
\* the loop of Cache.add_fingerprint over the bands, from band b on
RECURSIVE AddBands(_, _, _, _)
AddBands(be, fp, doc_id, b) ==
    IF b >= num_bands THEN [be |-> be, err |-> "ok"]
    ELSE LET r == DictBackend_add_fingerprint(be, b, BucketId(fp, b), fp, doc_id)
         IN IF r.err # "ok" THEN r ELSE AddBands(r.be, fp, doc_id, b + 1)

Cache_add_fingerprint(be, fp, doc_id) == AddBands(be, fp, doc_id, 0)

Cache_add_doc(be, doc, doc_id) ==
    IF doc_id = NoneVal THEN [be |-> be, err |-> "ValueError"]
    ELSE Cache_add_fingerprint(be, fingerprint(doc), doc_id)

\* the loop of Cache.remove_id over the bands, from band b on
RECURSIVE RemoveBands(_, _, _, _)
RemoveBands(be, fp, doc_id, b) ==
    IF b >= num_bands THEN [be |-> be, err |-> "ok"]
    ELSE LET r == DictBackend_remove_docid(be, b, BucketId(fp, b), doc_id)
         IN IF r.err # "ok" THEN r ELSE RemoveBands(r.be, fp, doc_id, b + 1)

Cache_remove_id(be, doc_id) ==
    LET f == get_fingerprint(be, doc_id)
    IN IF f.err # "ok" THEN [be |-> be, err |-> f.err]
       ELSE LET r == RemoveBands(be, f.val, doc_id, 0)
            IN IF r.err # "ok" THEN r ELSE DictBackend_remove_fingerprint(r.be, doc_id)

\* mutant: the divisibility of num_seeds by num_bands is not checked
Cache_init_no_assert(h, nb) ==
    IF nb = 0 THEN [err |-> "ZeroDivisionError", num_bands |-> NoneVal, backend |-> DictBackend_init(0)]
    ELSE [err |-> "ok", num_bands |-> nb, backend |-> DictBackend_init(nb)]

\* Cache(hasher, num_bands=nb): the backend is made first, then the assertion
\* of line 48 (num_seeds % 0 raises ZeroDivisionError before it is compared)
Cache_init(h, nb) ==
    IF nb = 0 THEN [err |-> "ZeroDivisionError", num_bands |-> NoneVal, backend |-> DictBackend_init(0)]
    ELSE IF h.num_seeds % nb # 0 THEN [err |-> "AssertionError", num_bands |-> NoneVal, backend |-> DictBackend_init(0)]
    ELSE [err |-> "ok", num_bands |-> nb, backend |-> DictBackend_init(nb)]

\* ------------------------------------------------ Cache.to_json / from_json
\* The snapshot of the in-memory index: the hasher, num_bands, for each band
\* the mapping bucket id -> list of doc_ids, and the fingerprints mapping.  A
\* JSON document has no sets and no integer keys: a set is written as the
\* list of its members in increasing order, a key k as its decimal string
\* (here the 1-tuple <<k>>), and None as null.
RECURSIVE SortedList(_)
SortedList(S) ==
    IF S = {} THEN <<>>
    ELSE LET m == CHOOSE x \in S : \A y \in S : x <= y
         IN <<m>> \o SortedList(S \ {m})

json_key(k) == <<k>>

json_dict(d) == [x \in {json_key(k) : k \in DOMAIN d} |-> d[x[1]]]

Cache_to_json(h, nb, be) ==
    [hasher |-> h,
     num_bands |-> nb,
     bins |-> [b \in DOMAIN be.doc_ids |-> json_dict([k \in DOMAIN be.doc_ids[b] |-> SortedList(be.doc_ids[b][k])])],
     fingerprints |-> [null |-> be.fp_none, items |-> json_dict(be.fingerprints)]]

\* the keys of a JSON object read back as integers
int_keys(d) == [k \in {x[1] : x \in DOMAIN d} |-> d[json_key(k)]]

\* the restoration by insert_signature: every fingerprint of the snapshot
\* is inserted into a new index
RECURSIVE insert_signatures(_, _, _)
insert_signatures(be, fps, ids) ==
    IF ids = {} THEN be
    ELSE LET i == CHOOSE x \in ids : TRUE
         IN insert_signatures(Cache_add_fingerprint(be, fps[i], i).be, fps, ids \ {i})

\* mutant: the buckets are not read from the snapshot but rebuilt from its
\* fingerprints
Cache_from_json_by_insert(snap) ==
    [hasher |-> snap.hasher,
     num_bands |-> snap.num_bands,
     backend |-> IF snap.fingerprints.null THEN DictBackend_init(snap.num_bands)
                 ELSE insert_signatures([DictBackend_init(snap.num_bands) EXCEPT !.fp_none = FALSE],
                                        int_keys(snap.fingerprints.items), DOMAIN int_keys(snap.fingerprints.items))]

Cache_from_json(snap) ==
    [hasher |-> snap.hasher,
     num_bands |-> snap.num_bands,
     backend |-> [fp_none |-> snap.fingerprints.null,
                  fingerprints |-> int_keys(snap.fingerprints.items),
                  doc_ids |-> [b \in DOMAIN snap.bins |->
                                 [k \in DOMAIN int_keys(snap.bins[b]) |->
                                    {int_keys(snap.bins[b])[k][i] : i \in DOMAIN int_keys(snap.bins[b])[k]}]]]]

\* ------------------------------------------------- Cache.get_duplicates_of
\* get_duplicates_of is a generator: calling it runs nothing, each next() runs
\* it to its next yield, and its finally clause runs when it is exhausted,
\* raises, or is closed while suspended.

\* DictBackend.get_bucket: the stored set, or the dict {} for an absent bucket
has_bucket(be, bin_i, bucket_id) == bucket_id \in DOMAIN be.doc_ids[bin_i]

\* cache.py line 167 reads "get_bucket(bin_i, bucket_id) - j[-1])", which does
\* not parse.  It is a set difference that takes the query itself out of the
\* bucket; the set subtracted is either {doc_id} or {-1}, and the model allows
\* both.  (The two agree when the lookup is by body: doc_id is then -1.)
Line167(doc_id) == {{doc_id}, {Sentinel}}

Outcome(kind, val, err, band, rest, dedup) == [kind |-> kind, val |-> val, err |-> err, band |-> band, rest |-> rest, dedup |-> dedup]

\* the try block from the current position (band, what is left of bucket_,
\* dedup) to the next yield, the end of the loop, or an exception; the
\* iteration order of a set is not fixed, so this is a set of outcomes
RECURSIVE GenBody(_, _, _, _, _, _, _)
GenBody(be, fp, doc_id, min_jaccard, band, rest, dedup) ==
    IF rest # {}
    THEN UNION { LET f1 == get_fingerprint(be, doc_id)
                     f2 == get_fingerprint(be, doc_id2)
                     pct == IF min_jaccard = NoneVal THEN 0 ELSE min_jaccard
                 IN IF f1.err # "ok" THEN {Outcome("raise", NoneVal, f1.err, band, {}, dedup)}
                    ELSE IF f2.err # "ok" THEN {Outcome("raise", NoneVal, f2.err, band, {}, dedup)}
                    ELSE IF JaccardAbove(f1.val, f2.val, pct) /\ doc_id2 \notin dedup
                    THEN {Outcome("yield", doc_id2, "ok", band, rest \ {doc_id2}, dedup \cup {doc_id2})}
                    ELSE GenBody(be, fp, doc_id, min_jaccard, band, rest \ {doc_id2}, dedup)
               : doc_id2 \in rest }
    ELSE IF band + 1 >= num_bands THEN {Outcome("stop", NoneVal, "ok", band, {}, dedup)}
    ELSE IF ~has_bucket(be, band + 1, BucketId(fp, band + 1))
    THEN {Outcome("raise", NoneVal, "TypeError", band, {}, dedup)}
    ELSE UNION { GenBody(be, fp, doc_id, min_jaccard, band + 1, be.doc_ids[band + 1][BucketId(fp, band + 1)] \ x, dedup)
               : x \in Line167(doc_id) }

\* lines 140-151: find the fingerprint of the query, inserting the document
\* under the fake id -1 when the doc_id is not known
GenStart(be, doc, doc_id) ==
    LET f == get_fingerprint(be, doc_id)
    IN IF f.err = "ok" THEN [be |-> be, err |-> "ok", doc_id |-> doc_id, cleanup |-> FALSE, fp |-> f.val]
       ELSE IF f.err # "KeyError" THEN [be |-> be, err |-> f.err, doc_id |-> doc_id, cleanup |-> FALSE, fp |-> <<>>]
       ELSE IF doc = NoneVal THEN [be |-> be, err |-> "ValueError", doc_id |-> doc_id, cleanup |-> FALSE, fp |-> <<>>]
       ELSE LET a == Cache_add_doc(be, doc, Sentinel)
                g == get_fingerprint(a.be, Sentinel)
            IN [be |-> a.be, err |-> g.err, doc_id |-> Sentinel, cleanup |-> TRUE, fp |-> g.val]

\* mutant: the fake id is left in the index
GenFinally_no_cleanup(be, cleanup) == [be |-> be, err |-> "ok"]

\* lines 170-173: the finally clause
GenFinally(be, cleanup) == IF cleanup THEN Cache_remove_id(be, Sentinel) ELSE [be |-> be, err |-> "ok"]

\* ------------------------------------------------------ Cache.is_duplicate
\* The result of one call: the backend it leaves, the value returned and the
\* exception raised.  The generator it abandons after the first hit is
\* finalized when is_duplicate returns, which runs the finally clause (an
\* exception raised there is not propagated).
IsDup(be, res, err, cleanup) == [be |-> be, res |-> res, err |-> err, cleanup |-> cleanup]

\* lines 186-194: the first next() of get_duplicates_of decides
IsDupLookup(be, doc, doc_id, min_similarity) ==
    LET s == GenStart(be, doc, doc_id)
    IN IF s.err # "ok" THEN {IsDup(s.be, FALSE, s.err, s.cleanup)}
       ELSE { LET fin == GenFinally(s.be, s.cleanup)
              IN IF o.kind = "yield" THEN IsDup(fin.be, TRUE, "ok", s.cleanup)
                 ELSE IF o.kind = "stop" THEN IsDup(fin.be, FALSE, fin.err, s.cleanup)
                 ELSE IsDup(fin.be, FALSE, IF fin.err # "ok" THEN fin.err ELSE o.err, s.cleanup)
            : o \in GenBody(s.be, s.fp, s.doc_id, min_similarity, -1, {}, {}) }

\* mutant: a doc_id that is present is looked up like any other
Cache_is_duplicate_no_shortcut(be, doc, doc_id, min_similarity) ==
    IF is_empty(be) THEN {IsDup(be, FALSE, "ok", FALSE)}
    ELSE IF doc_id # NoneVal /\ be.fp_none THEN {IsDup(be, FALSE, "TypeError", FALSE)}
    ELSE IsDupLookup(be, doc, doc_id, min_similarity)

Cache_is_duplicate(be, doc, doc_id, min_similarity) ==
    IF is_empty(be) THEN {IsDup(be, FALSE, "ok", FALSE)}
    ELSE IF doc_id # NoneVal /\ be.fp_none THEN {IsDup(be, FALSE, "TypeError", FALSE)}
    ELSE IF doc_id # NoneVal /\ doc_id \in DOMAIN be.fingerprints THEN {IsDup(be, TRUE, "ok", FALSE)}
    ELSE IsDupLookup(be, doc, doc_id, min_similarity)

\* ---------------------------------------------------------------- actions
\* what the index holds: the doc_id -> fingerprint entries and the buckets
Content(be) == [fingerprints |-> be.fingerprints, doc_ids |-> be.doc_ids]

NoPre == [fingerprints |-> EmptyDict, doc_ids |-> EmptyDict]

\* last: the call that was made last, the doc_id it was given, the value it
\* returned (res for is_duplicate, val for a generator's next) and the
\* exception it raised.  For the constructor ("init") val is the num_bands it
\* was given.
Last(op, doc_id, res, val, err) ==
    [op |-> op, id |-> doc_id, res |-> res, val |-> val, err |-> err, ended |-> FALSE, pre |-> NoPre]

\* the call ended a lookup that had stored its document under the id -1 (ended),
\* and pre is the index content before that lookup began; for clear, pre is
\* the index content that it wiped
LastOf(l, ended, pre) == IF ended THEN [l EXCEPT !.ended = TRUE, !.pre = pre] ELSE l

\* added[i]: the documents that add_doc has stored under the doc_id i since
\* the last remove_id(i) or clear

\* a generator object of get_duplicates_of that is suspended at a yield: its
\* locals, and (pre, disturbed) the index content before the call, kept for as
\* long as no other call has run on the Cache since
IdleGen == [pc |-> "idle", doc_id |-> NoneVal, min_jaccard |-> NoneVal, cleanup |-> FALSE,
            fp |-> <<>>, band |-> -1, rest |-> {}, dedup |-> {}, disturbed |-> FALSE, pre |-> NoPre]

Gens == 1..MaxGens

Thresholds == {NoneVal, 90}

\* another call ran on the Cache: every live generator but g is disturbed
Disturb(gs, g) == [h \in Gens |-> IF h # g /\ gs[h].pc # "idle" THEN [gs[h] EXCEPT !.disturbed = TRUE, !.pre = NoPre] ELSE gs[h]]

\* the Cache object exists: its constructor returned
Constructed == num_bands # NoneVal

\* the documents and results of a run of test_num_bands (none outside it)
NoTest == [stored |-> NoneVal, query |-> NoneVal, min_similarity |-> NoneVal, dups |-> EmptyDict]

\* sqlite: the database file (exists; data, the rows of its table "data" in
\* the order of their insertion; created, the num_bands given when it was made),
\* the SqliteBackend object in use (self) and the backend call made last (call:
\* the doc_id or num_bands it was given, what it returned, the exception it
\* raised, the rows executemany had written when it stopped and the rows of
\* the table before the call)
NoCall == [op |-> "none", id |-> NoneVal, res |-> FALSE, err |-> "ok", n |-> 0, pre |-> <<>>]

NoSqlite ==
    [exists |-> FALSE, created |-> NoneVal, data |-> <<>>,
     self |-> [open |-> FALSE, num_bands |-> NoneVal, empty |-> TRUE, emtpy |-> TRUE],
     call |-> NoCall]

\* c = Cache(h, num_bands=nb)
New(h, nb) ==
    LET c == Cache_init(h, nb)
    IN /\ hasher = h
       /\ num_bands = c.num_bands
       /\ backend = c.backend
       /\ gens = [g \in Gens |-> IdleGen]
       /\ last = Last("init", NoneVal, FALSE, nb, c.err)
       /\ added = [i \in UserIds |-> {}]
       /\ ncalls = 0

\* a MinHasher of NumSeeds seeds and a Cache over it, with any num_bands
Init ==
    /\ \E nb \in 0..(NumSeeds + 1) : New([num_seeds |-> NumSeeds], nb)
    /\ test = NoTest
    /\ sqlite = NoSqlite

add_doc(doc, doc_id) ==
    LET r == Cache_add_doc(backend, doc, doc_id)
    IN /\ Constructed
       /\ backend' = r.be
       /\ gens' = Disturb(gens, 0)
       /\ last' = Last("add_doc", doc_id, FALSE, NoneVal, r.err)
       /\ UNCHANGED <<hasher, num_bands>>

add_fingerprint(fp, doc_id) ==
    LET r == Cache_add_fingerprint(backend, fp, doc_id)
    IN /\ Constructed
       /\ backend' = r.be
       /\ gens' = Disturb(gens, 0)
       /\ last' = Last("add_fingerprint", doc_id, FALSE, NoneVal, r.err)
       /\ UNCHANGED <<hasher, num_bands>>

remove_id(doc_id) ==
    LET r == Cache_remove_id(backend, doc_id)
    IN /\ Constructed
       /\ backend' = r.be
       /\ gens' = Disturb(gens, 0)
       /\ last' = Last("remove_id", doc_id, FALSE, NoneVal, r.err)
       /\ UNCHANGED <<hasher, num_bands>>

\* Cache.clear: backend.clear(), then the hasher's memo is dropped
clear ==
    /\ Constructed
    /\ backend' = DictBackend_clear(backend)
    /\ gens' = Disturb(gens, 0)
    /\ last' = [Last("clear", NoneVal, FALSE, NoneVal, "ok") EXCEPT !.pre = Content(backend)]
    /\ UNCHANGED <<hasher, num_bands>>

\* lsh.to_json(path); lsh = Cache.from_json(path): the Cache is replaced by
\* the one restored from its snapshot
from_json ==
    LET r == Cache_from_json(Cache_to_json(hasher, num_bands, backend))
    IN /\ Constructed
       /\ hasher' = r.hasher
       /\ num_bands' = r.num_bands
       /\ backend' = r.backend
       /\ gens' = Disturb(gens, 0)
       /\ last' = [Last("from_json", NoneVal, FALSE, NoneVal, "ok") EXCEPT !.pre = Content(backend)]

is_duplicate(doc, doc_id, min_similarity) ==
    \E r \in Cache_is_duplicate(backend, doc, doc_id, min_similarity) :
       /\ Constructed
       /\ backend' = r.be
       /\ gens' = Disturb(gens, 0)
       /\ last' = LastOf(Last("is_duplicate", doc_id, r.res, NoneVal, r.err), r.cleanup, Content(backend))
       /\ UNCHANGED <<hasher, num_bands>>

\* the generator g ends: its finally clause has run and left backend fin.be
GenEnd(g, op, doc_id, fin, err, s) ==
    /\ backend' = fin.be
    /\ gens' = [Disturb(gens, g) EXCEPT ![g] = IdleGen]
    /\ last' = LastOf(Last(op, doc_id, FALSE, NoneVal, err), s.cleanup /\ ~s.disturbed, s.pre)

\* the generator g runs from the state s of its locals to its next yield or
\* to its end
GenRun(g, op, doc_id, s) ==
    \E o \in GenBody(s.be, s.fp, s.doc_id, s.min_jaccard, s.band, s.rest, s.dedup) :
       LET fin == GenFinally(s.be, s.cleanup)
       IN IF o.kind = "yield"
          THEN /\ backend' = s.be
               /\ gens' = [Disturb(gens, g) EXCEPT ![g] =
                              [pc |-> "suspended", doc_id |-> s.doc_id, min_jaccard |-> s.min_jaccard, cleanup |-> s.cleanup,
                               fp |-> s.fp, band |-> o.band, rest |-> o.rest, dedup |-> o.dedup,
                               disturbed |-> s.disturbed, pre |-> s.pre]]
               /\ last' = Last(op, doc_id, FALSE, o.val, "ok")
          ELSE IF o.kind = "stop" THEN GenEnd(g, op, doc_id, fin, fin.err, s)
          ELSE GenEnd(g, op, doc_id, fin, IF fin.err # "ok" THEN fin.err ELSE o.err, s)

\* g = get_duplicates_of(doc, doc_id, min_jaccard) and the first next(g).
\* The call itself only makes the generator object: none of the body runs
\* before the first next(g), so nothing can tell the two apart.
get_duplicates_of(g, doc, doc_id, min_jaccard) ==
    /\ Constructed
    /\ gens[g].pc = "idle"
    /\ UNCHANGED <<hasher, num_bands>>
    /\ LET s == GenStart(backend, doc, doc_id)
       IN IF s.err # "ok" THEN GenEnd(g, "get_duplicates_of", doc_id, [be |-> s.be, err |-> s.err], s.err, IdleGen)
          ELSE GenRun(g, "get_duplicates_of", doc_id,
                      [be |-> s.be, fp |-> s.fp, doc_id |-> s.doc_id, min_jaccard |-> min_jaccard, cleanup |-> s.cleanup,
                       band |-> -1, rest |-> {}, dedup |-> {}, disturbed |-> FALSE, pre |-> Content(backend)])

\* a later next(g)
gen_next(g) ==
    /\ gens[g].pc = "suspended"
    /\ UNCHANGED <<hasher, num_bands>>
    /\ GenRun(g, "next", gens[g].doc_id, [gens[g] EXCEPT !.pc = "running"] @@ [be |-> backend])

\* g.close(), or g being dropped: GeneratorExit is raised at the yield where g
\* is suspended, so only the finally clause runs
gen_close(g) ==
    /\ gens[g].pc = "suspended"
    /\ UNCHANGED <<hasher, num_bands>>
    /\ LET fin == GenFinally(backend, gens[g].cleanup)
       IN GenEnd(g, "close", gens[g].doc_id, fin, fin.err, gens[g])

\* a call of a run that is not counted
Untracked == UNCHANGED <<added, ncalls, test, sqlite>>

\* one more call of a run of at most MaxCalls calls
Tick == ncalls < MaxCalls /\ ncalls' = ncalls + 1 /\ UNCHANGED <<test, sqlite>>

\* the operations of the index
Next ==
    \/ \E doc \in Docs, doc_id \in UserIds \cup {NoneVal} : add_doc(doc, doc_id) /\ Untracked
    \/ \E doc \in Docs, doc_id \in UserIds \cup {NoneVal} : add_fingerprint(fingerprint(doc), doc_id) /\ Untracked
    \/ \E doc_id \in UserIds \cup {NoneVal} : remove_id(doc_id) /\ Untracked
    \/ clear /\ Untracked
    \/ from_json /\ Untracked
    \/ \E doc \in Docs, doc_id \in UserIds \cup {NoneVal}, t \in Thresholds : is_duplicate(doc, doc_id, t) /\ Untracked

Spec == Init /\ [][Next]_vars

\* the operations of the index with lookups that are consumed lazily, in runs
\* of at most MaxCalls calls; added records what add_doc has stored
NextLazy ==
    \/ \E doc \in Docs, doc_id \in UserIds : add_doc(doc, doc_id) /\ Tick /\ added' = [added EXCEPT ![doc_id] = @ \cup {doc}]
    \/ \E doc_id \in UserIds : remove_id(doc_id) /\ Tick /\ added' = [added EXCEPT ![doc_id] = {}]
    \/ clear /\ Tick /\ added' = [i \in UserIds |-> {}]
    \/ \E g \in Gens, doc \in Docs \cup {NoneVal}, doc_id \in UserIds \cup {NoneVal}, t \in Thresholds :
          get_duplicates_of(g, doc, doc_id, t) /\ Tick /\ UNCHANGED added
    \/ \E g \in Gens : gen_next(g) /\ Tick /\ UNCHANGED added
    \/ \E g \in Gens : gen_close(g) /\ Tick /\ UNCHANGED added
    \/ \E doc \in Docs, t \in Thresholds : is_duplicate(doc, NoneVal, t) /\ Tick /\ UNCHANGED added

SpecLazy == Init /\ [][NextLazy]_vars

\* ----------------------------------------------------------------- reads
\* the members of the bucket bucket_id of band bin_i (none when it is absent)
get_bucket(be, bin_i, bucket_id) == IF has_bucket(be, bin_i, bucket_id) THEN be.doc_ids[bin_i][bucket_id] ELSE {}

\* the candidate set of a signature: the union over all bands of the buckets
\* keyed by its band slices
candidates_of(be, fp) == UNION {get_bucket(be, b, BucketId(fp, b)) : b \in Bands}

\* a generator of get_duplicates_of consumed to its end: the ids it yields,
\* how many values it yields (n) and the exception that ends it
RECURSIVE Drain(_, _, _, _, _, _, _)
Drain(be, fp, doc_id, min_jaccard, band, rest, dedup) ==
    UNION { IF o.kind = "yield"
            THEN {[r EXCEPT !.n = @ + 1] : r \in Drain(be, fp, doc_id, min_jaccard, o.band, o.rest, o.dedup)}
            ELSE {[ids |-> o.dedup, n |-> 0, err |-> o.err]}
          : o \in GenBody(be, fp, doc_id, min_jaccard, band, rest, dedup) }

\* list(get_duplicates_of(doc, doc_id, min_jaccard))
duplicates_of(be, doc, doc_id, min_jaccard) ==
    LET s == GenStart(be, doc, doc_id)
    IN IF s.err # "ok" THEN {[ids |-> {}, n |-> 0, err |-> s.err]}
       ELSE Drain(s.be, s.fp, s.doc_id, min_jaccard, -1, {}, {})

SentinelAbsent(c) ==
    /\ Sentinel \notin DOMAIN c.fingerprints
    /\ \A b \in DOMAIN c.doc_ids : \A k \in DOMAIN c.doc_ids[b] : Sentinel \notin c.doc_ids[b][k]

\* no fingerprint is stored and no band has a bucket
IndexEmpty(be) == DOMAIN be.fingerprints = {} /\ \A b \in DOMAIN be.doc_ids : DOMAIN be.doc_ids[b] = {}

\* ---------------------------------------------------------- test_num_bands
\* test_cache.test_num_bands: one hasher, a Cache for every divisor of its
\* num_seeds in increasing order, the same document stored in each, and
\* is_duplicate of the same query document asked of each.  The signatures of
\* the test are those of TestSeeds seeds over two values; the stored document
\* is document 0 (only the positions where two signatures agree matter).
TestDocs == 0..(Pow(2, TestSeeds) - 1)

divisors_of(n) == {d \in 1..n : n % d = 0}

InitBands ==
    /\ New([num_seeds |-> TestSeeds], 1)
    /\ \E q \in TestDocs, t \in Thresholds : test = [stored |-> 0, query |-> q, min_similarity |-> t, dups |-> EmptyDict]
    /\ sqlite = NoSqlite

\* c.update(doc + suffixes[0], 0)
test_update ==
    /\ IndexEmpty(backend)
    /\ num_bands \notin DOMAIN test.dups
    /\ add_doc(test.stored, 0)
    /\ UNCHANGED <<added, ncalls, test, sqlite>>

\* duplicates.append(c.is_duplicate(doc + s))
test_is_duplicate ==
    /\ 0 \in DOMAIN backend.fingerprints
    /\ num_bands \notin DOMAIN test.dups
    /\ is_duplicate(test.query, NoneVal, test.min_similarity)
    /\ test' = [test EXCEPT !.dups = Put(@, num_bands, last'.res)]
    /\ UNCHANGED sqlite
    /\ UNCHANGED <<added, ncalls>>

\* the next Cache(hasher, num_bands=nb) of the list
test_next_cache(nb) ==
    /\ num_bands \in DOMAIN test.dups
    /\ nb \in divisors_of(hasher.num_seeds) /\ nb > num_bands
    /\ \A d \in divisors_of(hasher.num_seeds) : d > num_bands => d >= nb
    /\ LET c == Cache_init(hasher, nb)
       IN /\ num_bands' = c.num_bands
          /\ backend' = c.backend
          /\ last' = Last("init", NoneVal, FALSE, nb, c.err)
    /\ UNCHANGED <<hasher, gens, added, ncalls, test, sqlite>>

NextBands ==
    \/ test_update
    \/ test_is_duplicate
    \/ \E nb \in 1..hasher.num_seeds : test_next_cache(nb)

SpecBands == InitBands /\ [][NextBands]_vars

\* ------------------------------------------------ Cache.get_all_duplicates
\* the orders in which a set may be iterated
Perms(S) == {p \in [1..Cardinality(S) -> S] : \A i, j \in 1..Cardinality(S) : i # j => p[i] # p[j]}

\* set(itertools.combinations(bucket, r=2)): the pairs (x, y) with x before y
\* in the iteration order of the bucket, for every order it may have
combinations(bucket) ==
    {{<<p[m[1]], p[m[2]]>> : m \in {x \in (1..Cardinality(bucket)) \X (1..Cardinality(bucket)) : x[1] < x[2]}} : p \in Perms(bucket)}

\* the buckets of the index, as (band, bucket id)
bucket_slots(be) == UNION {{<<b, k>> : k \in DOMAIN be.doc_ids[b]} : b \in DOMAIN be.doc_ids}

\* lines 129-133: candidate_pairs after the loop over the buckets in slots
RECURSIVE candidate_pairs(_, _)
candidate_pairs(be, slots) ==
    IF slots = {} THEN {{}}
    ELSE LET s == CHOOSE x \in slots : TRUE
             bucket == be.doc_ids[s[1]][s[2]]
             pairs_ == IF Cardinality(bucket) > 1 THEN combinations(bucket) ELSE {{}}
         IN {p \cup q : p \in pairs_, q \in candidate_pairs(be, slots \ {s})}

\* filter_candidates consumed to its end: the pairs kept, or the exception
\* of get_fingerprint
filter_candidates(be, pairs, min_jaccard) ==
    LET pct == IF min_jaccard = NoneVal THEN 0 ELSE min_jaccard
        bad == {q \in pairs : get_fingerprint(be, q[1]).err # "ok" \/ get_fingerprint(be, q[2]).err # "ok"}
    IN IF bad # {}
       THEN LET q == CHOOSE x \in bad : TRUE
            IN [pairs |-> {}, err |-> IF get_fingerprint(be, q[1]).err # "ok" THEN get_fingerprint(be, q[1]).err
                                      ELSE get_fingerprint(be, q[2]).err]
       ELSE [pairs |-> {q \in pairs : JaccardAbove(be.fingerprints[q[1]], be.fingerprints[q[2]], pct)}, err |-> "ok"]

\* set(get_all_duplicates(min_jaccard)): every result the call may give
Cache_get_all_duplicates(be, min_jaccard) ==
    {IF min_jaccard = NoneVal THEN [pairs |-> c, err |-> "ok"] ELSE filter_candidates(be, c, min_jaccard)
       : c \in candidate_pairs(be, bucket_slots(be))}

\* ---------------------------------------------------------- SqliteBackend
\* with sqlite_cursor(filename) as c: the rows written through the cursor are
\* committed after the body of the with statement, which an exception raised
\* in the body never reaches; the connection is then dropped with its
\* transaction open, and sqlite rolls that back.
\* mutant: the commit is made on every way out of the with statement
sqlite_cursor_commits_on_exit(data, written, raised, commit_ok) ==
    IF commit_ok THEN data \o written ELSE data

sqlite_cursor(data, written, raised, commit_ok) ==
    IF raised \/ ~commit_ok THEN data ELSE data \o written

\* SqliteBackend(nb, filename): self.num_bands is assigned before it is
\* compared with nb; count is the row that fetchone() returns, a tuple, which
\* is compared with 0
SqliteBackend_init(db, nb) ==
    LET self_num_bands == nb
        count == <<Cardinality({db.data[i][3] : i \in DOMAIN db.data})>>
    IN IF db.exists
       THEN IF self_num_bands # nb /\ nb > 0
            THEN [err |-> "RuntimeError", exists |-> TRUE, created |-> db.created,
                  self |-> [open |-> FALSE, num_bands |-> NoneVal, empty |-> TRUE, emtpy |-> TRUE]]
            ELSE [err |-> "ok", exists |-> TRUE, created |-> db.created,
                  self |-> [open |-> TRUE, num_bands |-> nb, empty |-> Len(count) = 0, emtpy |-> TRUE]]
       ELSE [err |-> "ok", exists |-> TRUE, created |-> nb,
             self |-> [open |-> TRUE, num_bands |-> nb, empty |-> TRUE, emtpy |-> TRUE]]

SqliteBackend_is_empty(self) == self.empty

SqliteBackend_doc_exists(self, data, doc_id) ==
    IF self.empty THEN FALSE
    ELSE Cardinality({i \in DOMAIN data : data[i][3] = doc_id}) > 0

\* Cache.add_fingerprint: the (band, bucket id) pairs handed to the backend
bins_buckets(fp) == [j \in 1..num_bands |-> <<j - 1, BucketId(fp, j - 1)>>]

\* the rows (bin_i, bucket_id, doc_id, int(part), i) of one document
values(bb, fp, doc_id) ==
    [m \in 1..(Len(bb) * Len(fp)) |->
        LET j == ((m - 1) \div Len(fp)) + 1
            i == (m - 1) % Len(fp)
        IN <<bb[j][1], bb[j][2], doc_id, fp[i + 1], i>>]

\* SqliteBackend.add_fingerprint, where executemany wrote the first n rows
\* (all of them unless it raised) and the commit succeeded or not; the
\* assignment after the insert is to self.emtpy
SqliteBackend_add_fingerprint(self, data, bb, fp, doc_id, n, commit_ok) ==
    LET vals == values(bb, fp, doc_id)
        raised == n < Len(vals)
        rows == Len(vals)
    IN IF validate_docid(doc_id) # "ok" THEN [self |-> self, data |-> data, res |-> FALSE, err |-> validate_docid(doc_id)]
       ELSE IF SqliteBackend_doc_exists(self, data, doc_id) THEN [self |-> self, data |-> data, res |-> FALSE, err |-> "ok"]
       ELSE [self |-> IF ~raised /\ commit_ok /\ self.empty /\ rows > 0 THEN [self EXCEPT !.emtpy = FALSE] ELSE self,
             data |-> sqlite_cursor(data, SubSeq(vals, 1, n), raised, commit_ok),
             res |-> ~raised /\ commit_ok /\ rows > 0,
             err |-> IF raised \/ ~commit_ok THEN "sqlite3.Error" ELSE "ok"]

\* SqliteBackend.get_fingerprint: doc_exists is called without its argument
SqliteBackend_get_fingerprint(self, data, doc_id) ==
    IF self.empty THEN "RuntimeError" ELSE "TypeError"

\* SqliteBackend.remove_fingerprint: DELETE * FROM is not a statement of sqlite
SqliteBackend_remove_fingerprint(self, data, doc_id) ==
    [data |-> sqlite_cursor(data, <<>>, TRUE, TRUE), err |-> "OperationalError"]

SqliteBackend_clear(self, data) ==
    [self |-> [self EXCEPT !.empty = TRUE], data |-> sqlite_cursor(data, <<>>, TRUE, TRUE), err |-> "OperationalError"]

Call(op, doc_id, res, err) == [op |-> op, id |-> doc_id, res |-> res, err |-> err, n |-> 0, pre |-> <<>>]

CacheUnchanged == UNCHANGED <<hasher, num_bands, backend, gens, last, added, ncalls, test>>

\* for "open", id is the num_bands given and res tells that the file existed
sqlite_open(nb) ==
    LET r == SqliteBackend_init(sqlite, nb)
    IN /\ sqlite' = [sqlite EXCEPT !.exists = r.exists, !.created = r.created, !.self = r.self,
                                   !.call = Call("open", nb, sqlite.exists, r.err)]
       /\ CacheUnchanged

\* the call of Cache.add_fingerprint on the backend, for the fingerprint of doc
sqlite_add_fingerprint(doc, doc_id, n, commit_ok) ==
    LET fp == fingerprint(doc)
        r == SqliteBackend_add_fingerprint(sqlite.self, sqlite.data, bins_buckets(fp), fp, doc_id, n, commit_ok)
    IN /\ sqlite.self.open
       /\ Len(sqlite.data) < MaxAdds * num_bands * hasher.num_seeds
       /\ sqlite' = [sqlite EXCEPT !.self = r.self, !.data = r.data,
                                   !.call = [op |-> "add_fingerprint", id |-> doc_id, res |-> r.res, err |-> r.err,
                                             n |-> n, pre |-> sqlite.data]]
       /\ CacheUnchanged

sqlite_get_fingerprint(doc_id) ==
    /\ sqlite.self.open
    /\ sqlite' = [sqlite EXCEPT !.call = Call("get_fingerprint", doc_id, FALSE, SqliteBackend_get_fingerprint(sqlite.self, sqlite.data, doc_id))]
    /\ CacheUnchanged

sqlite_remove_fingerprint(doc_id) ==
    LET r == SqliteBackend_remove_fingerprint(sqlite.self, sqlite.data, doc_id)
    IN /\ sqlite.self.open
       /\ sqlite' = [sqlite EXCEPT !.data = r.data, !.call = Call("remove_fingerprint", doc_id, FALSE, r.err)]
       /\ CacheUnchanged

sqlite_clear ==
    LET r == SqliteBackend_clear(sqlite.self, sqlite.data)
    IN /\ sqlite.self.open
       /\ sqlite' = [sqlite EXCEPT !.self = r.self, !.data = r.data, !.call = Call("clear", NoneVal, FALSE, r.err)]
       /\ CacheUnchanged

\* the num_bands a SqliteBackend is opened with
OpenBands == {-1} \cup (1..NumSeeds)

InitSqlite ==
    /\ \E nb \in divisors_of(NumSeeds) : New([num_seeds |-> NumSeeds], nb)
    /\ test = NoTest
    /\ sqlite = NoSqlite

NextSqlite ==
    \/ \E nb \in OpenBands : sqlite_open(nb)
    \/ \E doc \in Docs, id \in UserIds \cup {NoneVal}, n \in 0..(num_bands * hasher.num_seeds), ok \in BOOLEAN :
          sqlite_add_fingerprint(doc, id, n, ok)
    \/ \E id \in UserIds : sqlite_get_fingerprint(id)
    \/ \E id \in UserIds : sqlite_remove_fingerprint(id)
    \/ sqlite_clear

SpecSqlite == InitSqlite /\ [][NextSqlite]_vars

\* ---------------------------------------------------------------- claims

\* C1: every doc_id that is a member of bucket k of band b has a stored
\* fingerprint, and the band-b slice of that fingerprint hashes to k.
C1_BucketMembersAreStored ==
    \A b \in DOMAIN backend.doc_ids : \A k \in DOMAIN backend.doc_ids[b] : \A d \in backend.doc_ids[b][k] :
        /\ d \in DOMAIN backend.fingerprints
        /\ BucketId(backend.fingerprints[d], b) = k

\* C2: every doc_id that has a stored fingerprint is a member of the bucket
\* keyed by the band-b slice of that fingerprint, for every band b.
C2_StoredAreBucketMembers ==
    \A d \in DOMAIN backend.fingerprints : \A b \in Bands :
        /\ has_bucket(backend, b, BucketId(backend.fingerprints[d], b))
        /\ d \in backend.doc_ids[b][BucketId(backend.fingerprints[d], b)]

\* a doc_id stored under one signature while buckets of an earlier
\* signature still list it, another doc_id sharing one of its buckets
C2_Witness ==
    /\ last.op = "add_doc" /\ last.err = "ok"
    /\ Cardinality(DOMAIN backend.fingerprints) = 2
    /\ \E b \in Bands : \E k \in DOMAIN backend.doc_ids[b] :
          /\ Cardinality(backend.doc_ids[b][k]) = 2
          /\ \E d \in backend.doc_ids[b][k] : BucketId(backend.fingerprints[d], b) # k

\* C3: every bucket stored in any band, and every bucket that
\* get_all_buckets yields, has at least one member.
C3_NoEmptyBucket ==
    /\ \A b \in DOMAIN backend.doc_ids : \A k \in DOMAIN backend.doc_ids[b] : backend.doc_ids[b][k] # {}
    /\ \A bucket \in get_all_buckets(backend) : bucket # {}

\* a removal has just taken the last member out of every bucket
C3_Witness ==
    /\ last.op = "remove_id" /\ last.err = "ok"
    /\ ~backend.fp_none
    /\ IndexEmpty(backend)

\* C4: after add_doc(d, id), and until the next remove_id(id) or clear, id is
\* in the candidate set of d and a lookup of d by body returns id.
C4_AddedStaysVisible ==
    \A id \in UserIds : \A d \in added[id] :
        /\ id \in candidates_of(backend, fingerprint(d))
        /\ \A r \in duplicates_of(backend, d, NoneVal, NoneVal) : r.err = "ok" /\ id \in r.ids

\* C5: after remove_id(id) returns, id is a member of no bucket in any band
\* and has no stored fingerprint.
C5_RemovedIsGone ==
    (last.op = "remove_id" /\ last.err = "ok") =>
        /\ last.id \notin DOMAIN backend.fingerprints
        /\ \A b \in DOMAIN backend.doc_ids : \A k \in DOMAIN backend.doc_ids[b] : last.id \notin backend.doc_ids[b][k]

\* C6: an insert under a doc_id that is already present leaves the stored
\* signatures and the membership of every bucket as they were.
C6_InsertOfPresentIdIsNoOp ==
    [][(last'.op \in {"add_doc", "add_fingerprint"} /\ last'.id \in DOMAIN backend.fingerprints)
          => Content(backend') = Content(backend)]_vars

NoOtherDuplicate(be, doc, id, t) ==
    \A e \in candidates_of(be, fingerprint(doc)) \ {id, Sentinel} :
        e \in DOMAIN be.fingerprints
           => ~JaccardAbove(fingerprint(doc), be.fingerprints[e], IF t = NoneVal THEN 0 ELSE t)

\* C9: is_duplicate(doc, doc_id=id) returns false when doc is stored under id
\* and no document stored under another id is a duplicate of doc, while
\* is_duplicate(doc) returns true for that doc.
C9_SelfMatchIgnored ==
    \A doc \in Docs : \A id \in UserIds : \A t \in Thresholds :
        (id \in DOMAIN backend.fingerprints /\ backend.fingerprints[id] = fingerprint(doc)
            /\ NoOtherDuplicate(backend, doc, id, t))
        => /\ \A r \in Cache_is_duplicate(backend, doc, id, t) : r.res = FALSE /\ r.err = "ok"
           /\ \A r \in Cache_is_duplicate(backend, doc, NoneVal, t) : r.res = TRUE /\ r.err = "ok"

\* C10: on an empty index is_duplicate(doc, doc_id) returns false without
\* raising, for doc_id both absent and given.
C10_EmptyIndexHasNoDuplicate ==
    (last.op = "is_duplicate" /\ IndexEmpty(backend)) => (last.res = FALSE /\ last.err = "ok")

\* the stored ids other than self that are in a bucket of the signature fp and
\* whose estimated Jaccard with fp is above min_jaccard (above 0 when it is None)
StoredDuplicates(be, fp, self, min_jaccard) ==
    {e \in candidates_of(be, fp) \ {self} :
        /\ e \in DOMAIN be.fingerprints
        /\ JaccardAbove(fp, be.fingerprints[e], IF min_jaccard = NoneVal THEN 0 ELSE min_jaccard)}

\* C11: get_duplicates_of, by body or by a stored doc_id, yields exactly the
\* stored ids other than the query itself (its doc_id, or -1 by body) that
\* share a bucket with the query signature and have an estimated Jaccard above
\* min_jaccard, each exactly once.
C11_DuplicatesOfIsExact ==
    Constructed => \A t \in Thresholds :
        /\ \A doc \in Docs : \A r \in duplicates_of(backend, doc, NoneVal, t) :
              /\ r.err = "ok"
              /\ r.ids = StoredDuplicates(backend, fingerprint(doc), Sentinel, t)
              /\ r.n = Cardinality(r.ids)
        /\ \A id \in DOMAIN backend.fingerprints : \A r \in duplicates_of(backend, NoneVal, id, t) :
              /\ r.err = "ok"
              /\ r.ids = StoredDuplicates(backend, backend.fingerprints[id], id, t)
              /\ r.n = Cardinality(r.ids)

\* the unordered pairs of distinct stored doc_ids that share a bucket, those
\* with an estimated Jaccard above min_jaccard when it is set
StoredPairs(be, min_jaccard) ==
    {{x[1], x[2]} : x \in {y \in (DOMAIN be.fingerprints) \X (DOMAIN be.fingerprints) :
        /\ y[1] # y[2]
        /\ \E s \in bucket_slots(be) : {y[1], y[2]} \subseteq be.doc_ids[s[1]][s[2]]
        /\ min_jaccard = NoneVal \/ JaccardAbove(be.fingerprints[y[1]], be.fingerprints[y[2]], min_jaccard)}}

\* C12: get_all_duplicates returns exactly the unordered pairs of distinct
\* stored doc_ids that share a bucket in some band (with min_jaccard set, those
\* whose estimated Jaccard is above it), each once: never (a, a), never both
\* (a, b) and (b, a).
C12_AllDuplicatesIsExact ==
    Constructed => \A t \in Thresholds : \A r \in Cache_get_all_duplicates(backend, t) :
        /\ r.err = "ok"
        /\ \A q \in r.pairs : q[1] # q[2] /\ <<q[2], q[1]>> \notin r.pairs
        /\ {{q[1], q[2]} : q \in r.pairs} = StoredPairs(backend, t)

\* C13: a Cache whose num_bands does not divide the hasher's num_seeds is not
\* constructed (the constructor raises, and no insert or lookup runs on it);
\* a constructed Cache has num_seeds % num_bands = 0 and
\* band_width * num_bands = num_seeds.
C13_InvalidBandsRejected ==
    /\ (last.op = "init" /\ (last.val = 0 \/ hasher.num_seeds % last.val # 0))
          => (last.err # "ok" /\ ~Constructed)
    /\ ~Constructed => (last.op = "init" /\ IndexEmpty(backend))
    /\ Constructed => (hasher.num_seeds % num_bands = 0 /\ band_width * num_bands = hasher.num_seeds)

\* the constructor was given a num_bands above 1 that does not divide num_seeds
C13_Witness == last.op = "init" /\ last.err = "AssertionError" /\ last.val > 1 /\ ~Constructed

\* C14: remove_id of a doc_id that is not in the index raises no error and
\* leaves the fingerprints and every bucket unchanged, on a new, cleared or
\* populated index (so a second remove_id of the same id does what the first
\* did and no more).
C14_RemoveOfAbsentIdIsNoOp ==
    [][(last'.op = "remove_id" /\ last'.id \in UserIds \ DOMAIN backend.fingerprints)
          => (last'.err = "ok" /\ Content(backend') = Content(backend))]_vars

\* C15: for a doc_id that is not in the index, in every reachable state (a
\* new or cleared index included), get_fingerprint raises KeyError,
\* get_duplicates_of(doc=None, doc_id) raises an error, and
\* get_duplicates_of(doc, doc_id) gives what the lookup of doc by body gives.
C15_UnknownIdIsNotFound ==
    Constructed => \A id \in UserIds \ DOMAIN backend.fingerprints :
        /\ get_fingerprint(backend, id).err = "KeyError"
        /\ \A t \in Thresholds : \A r \in duplicates_of(backend, NoneVal, id, t) : r.err # "ok"
        /\ \A doc \in Docs, t \in Thresholds :
              duplicates_of(backend, doc, id, t) = duplicates_of(backend, doc, NoneVal, t)

\* C16: an insert with doc_id None raises ValueError and leaves the index as
\* it was, and None is a doc_id in no reachable state: it has no fingerprint
\* and is a member of no bucket.
C16_NoneIdRejected ==
    /\ [](/\ NoneVal \notin DOMAIN backend.fingerprints
          /\ \A b \in DOMAIN backend.doc_ids : \A k \in DOMAIN backend.doc_ids[b] : NoneVal \notin backend.doc_ids[b][k])
    /\ [][(last'.op \in {"add_doc", "add_fingerprint"} /\ last'.id = NoneVal)
            => (last'.err = "ValueError" /\ backend' = backend)]_vars

\* add_fingerprint was called with doc_id None on a populated index
C16_Witness ==
    /\ last.op = "add_fingerprint" /\ last.id = NoneVal /\ last.err = "ValueError"
    /\ DOMAIN backend.fingerprints # {}

\* C17: after any sequence of inserts, removals and clears, is_empty() of the
\* in-memory backend is true if and only if no document is stored.
C17_IsEmptyIffNothingStored == Constructed => (is_empty(backend) <=> IndexEmpty(backend))

\* C18: after clear, whatever was stored before, no doc_id has a fingerprint,
\* no band has a bucket, the number of bands is what it was, and the Cache is
\* in the state of a newly constructed Cache with the same num_bands, so that
\* every later operation behaves as on a new one.
C18_ClearGivesNewIndex ==
    (last.op = "clear") =>
        /\ last.err = "ok"
        /\ IndexEmpty(backend)
        /\ DOMAIN backend.doc_ids = DOMAIN last.pre.doc_ids
        /\ Cache_init(hasher, num_bands) = [err |-> "ok", num_bands |-> num_bands, backend |-> backend]

\* clear was called on an index that held two doc_ids
C18_Witness == last.op = "clear" /\ Cardinality(DOMAIN last.pre.fingerprints) = 2

\* C19: with the stored and the query signatures fixed and num_bands varied
\* over the divisors of num_seeds, the number of query documents that
\* is_duplicate finds does not decrease as num_bands increases.
C19_MoreBandsFindNoFewer ==
    \A b1, b2 \in DOMAIN test.dups : (b1 < b2 /\ test.dups[b1]) => test.dups[b2]

\* C19 as amended: the same from num_bands b1 to a multiple b2 of b1.
C19_MultipleOfBandsFindsNoFewer ==
    \A b1, b2 \in DOMAIN test.dups : (b1 < b2 /\ b2 % b1 = 0 /\ test.dups[b1]) => test.dups[b2]

\* a query that is found with 2 bands and with 4, and not with 1
C19_Witness ==
    /\ {1, 2, 4} \subseteq DOMAIN test.dups
    /\ ~test.dups[1] /\ test.dups[2] /\ test.dups[4]

\* the signatures at hand: those stored and those of the documents
Signatures == {backend.fingerprints[d] : d \in DOMAIN backend.fingerprints} \cup {fingerprint(doc) : doc \in Docs}

\* C20: the Jaccard estimate of two signatures is the number of positions
\* where they agree over num_seeds: it is 1 exactly when they are equal
\* elementwise, 0 when no position agrees, between 0 and 1, and the same for
\* (a, b) as for (b, a).
C20_JaccardEstimate ==
    \A a, b \in Signatures :
        /\ (Agree(a, b) = hasher.num_seeds) <=> (\A j \in 1..hasher.num_seeds : a[j] = b[j])
        /\ (\A j \in 1..hasher.num_seeds : a[j] # b[j]) => Agree(a, b) = 0
        /\ 0 <= Agree(a, b) /\ Agree(a, b) <= hasher.num_seeds
        /\ Agree(a, b) = Agree(b, a)
        /\ \A pct \in {0, 90} : JaccardAbove(a, b, pct) <=> JaccardAbove(b, a, pct)

\* two doc_ids are stored whose signatures agree at no position, and a lookup
\* has compared signatures
C20_Witness ==
    /\ last.op = "is_duplicate" /\ last.err = "ok" /\ last.ended
    /\ \E d, e \in DOMAIN backend.fingerprints :
          /\ backend.fingerprints[d] # backend.fingerprints[e]
          /\ Agree(backend.fingerprints[d], backend.fingerprints[e]) = 0

Written == SubSeq(sqlite.data, Len(sqlite.call.pre) + 1, Len(sqlite.data))

\* C22: add_fingerprint of the durable backend is atomic: after a call that
\* raised, or that found the doc_id present, the table is as before the call;
\* after a call that returned true the table has, after the rows it had, the
\* rows of every band and every entry of the signature of that doc_id and no
\* others.  No other state of the table is seen by a later operation.
C22_AddIsAtomic ==
    sqlite.call.op = "add_fingerprint" =>
        /\ SubSeq(sqlite.data, 1, Len(sqlite.call.pre)) = sqlite.call.pre
        /\ \/ Written = <<>> /\ (sqlite.call.err # "ok" \/ ~sqlite.call.res)
           \/ /\ sqlite.call.err = "ok" /\ sqlite.call.res
              /\ Len(Written) = num_bands * hasher.num_seeds
              /\ \A b \in Bands, i \in 0..(hasher.num_seeds - 1) :
                    \E m \in DOMAIN Written :
                        Written[m][1] = b /\ Written[m][3] = sqlite.call.id /\ Written[m][5] = i

\* executemany raised after it had written the rows of some bands, into a
\* table that held rows already
C22_Witness ==
    /\ sqlite.call.op = "add_fingerprint"
    /\ sqlite.call.err = "sqlite3.Error"
    /\ sqlite.call.n > 0 /\ sqlite.call.n < num_bands * hasher.num_seeds
    /\ num_bands > 1
    /\ sqlite.call.pre # <<>>

\* C23: after add_fingerprint stored the rows of a doc_id, is_empty() is
\* false and doc_exists(doc_id) is true, and add_fingerprint with a doc_id
\* that has rows in the table returns false and stores no further rows.
C23_StoredIdIsSeen ==
    (sqlite.call.op = "add_fingerprint" /\ sqlite.call.err = "ok") =>
        /\ sqlite.call.res =>
              ~SqliteBackend_is_empty(sqlite.self) /\ SqliteBackend_doc_exists(sqlite.self, sqlite.data, sqlite.call.id)
        /\ (\E m \in DOMAIN sqlite.call.pre : sqlite.call.pre[m][3] = sqlite.call.id) =>
              ~sqlite.call.res /\ sqlite.data = sqlite.call.pre

\* C24: SqliteBackend on a file that exists raises when it is given a
\* positive num_bands other than the one the file was made with, and returns
\* when it is given that num_bands or -1.
C24_BandMismatchRejected ==
    (sqlite.call.op = "open" /\ sqlite.call.res /\ sqlite.created > 0) =>
        IF sqlite.call.id > 0 /\ sqlite.call.id # sqlite.created
        THEN sqlite.call.err # "ok"
        ELSE sqlite.call.err = "ok"

\* the positions (from 1) of a signature that band b covers
BandPositions(b) == (b * band_width + 1)..((b + 1) * band_width)

\* C25: the bands of a signature are num_bands slices of band_width entries
\* each, band b holding the entries at the positions b*band_width to
\* (b+1)*band_width - 1 in order; two signatures have the same bucket id in
\* band b exactly when they agree at every position of band b; and the
\* candidate set of a document is the set of the stored doc_ids whose
\* fingerprint agrees with the document's at every position of some band.
C25_BandsAndCandidates ==
    Constructed =>
        /\ band_width * num_bands = hasher.num_seeds
        /\ \A d \in Docs, b \in Bands :
              /\ Len(BandSlice(fingerprint(d), b)) = band_width
              /\ \A i \in 1..band_width : BandSlice(fingerprint(d), b)[i] = fingerprint(d)[b * band_width + i]
        /\ \A d1, d2 \in Docs, b \in Bands :
              BucketId(fingerprint(d1), b) = BucketId(fingerprint(d2), b)
                  <=> \A i \in BandPositions(b) : fingerprint(d1)[i] = fingerprint(d2)[i]
        /\ \A d \in Docs :
              candidates_of(backend, fingerprint(d))
                  = {x \in DOMAIN backend.fingerprints :
                        \E b \in Bands : \A i \in BandPositions(b) : backend.fingerprints[x][i] = fingerprint(d)[i]}

\* C26: from a state in which doc_id has no fingerprint, add_doc(doc, doc_id)
\* and then remove_id(doc_id) both return and leave the backend as it was:
\* the same buckets, the same fingerprints and the same _fingerprints
\* attribute, so that every later call gives what it gave before.
C26_AddThenRemoveIsRoundTrip ==
    Constructed =>
        \A doc \in Docs, doc_id \in UserIds \ DOMAIN backend.fingerprints :
            LET a == Cache_add_doc(backend, doc, doc_id)
                r == Cache_remove_id(a.be, doc_id)
            IN /\ a.err = "ok" /\ r.err = "ok"
               /\ r.be = backend
               /\ \A other \in UserIds : get_fingerprint(r.be, other) = get_fingerprint(backend, other)

\* a generator of a lookup by body is suspended at a yield
LookupSuspended == \E g \in Gens : gens[g].pc = "suspended" /\ gens[g].cleanup

\* C27: while a lookup by body is suspended, get_all_duplicates returns
\* without an exception and without the id -1 in a pair, and is_duplicate of
\* a document returns without an exception; and once no lookup is suspended,
\* with callers that give no id -1, the id -1 has no fingerprint and is in no
\* bucket, and the next() or close() that ended the lookup raised nothing.
C27_LazyLookupsDoNotInterfere ==
    /\ LookupSuspended =>
          /\ \A t \in Thresholds : \A r \in Cache_get_all_duplicates(backend, t) :
                r.err = "ok" /\ \A q \in r.pairs : q[1] # Sentinel /\ q[2] # Sentinel
          /\ \A doc \in Docs, t \in Thresholds : \A r \in Cache_is_duplicate(backend, doc, NoneVal, t) : r.err = "ok"
    /\ (Constructed /\ \A g \in Gens : gens[g].pc = "idle") =>
          /\ SentinelAbsent(Content(backend))
          /\ last.op \in {"next", "close"} => last.err = "ok"

====
